---- MODULE Spec2Model ----
(***************************************************************************)
(* Model of the events API of mini-event-planner                           *)
(* (backend/routes/events.js): the Event collection and the request        *)
(* handlers that read and write it.  Every store operation (one mongoose   *)
(* call) is one atomic step; a handler with two awaits is two steps, and   *)
(* handlers of different requests interleave between their awaits.  The    *)
(* handler's code before its first await touches nothing shared, so a      *)
(* request enters the model with its first store operation.                *)
(* The frontend's session state (frontend/src/context/AuthContext.jsx,     *)
(* components/ProtectedRoute.jsx) is the variable browser.                 *)
(***************************************************************************)
EXTENDS Integers, Sequences, FiniteSets, TLC

\* ---------------------------------------------------------------- bounds
MaxReq == 3
MaxCap == 2

Users  == {"alice", "bob", "carol"}
Events == {"e1", "e2"}
Reqs   == 1..MaxReq

VARIABLES
    store,    \* the Event collection: eventId -> document, for existing ids
    ids,      \* the _id values the collection has ever assigned
    req,      \* the requests: what was asked, where the handler is, its response
    store0,   \* the collection as it was when the requests started
    browser   \* the frontend: AuthProvider's state and localStorage

vars == <<store, ids, req, store0, browser>>

\* ------------------------------------------------------------ data model
Range(s) == {s[i] : i \in 1..Len(s)}

RECURSIVE SeqsOver(_, _)
\* the arrays over S of length n
SeqsOver(S, n) ==
    IF n = 0 THEN {<<>>}
    ELSE {Append(s, x) : s \in SeqsOver(S, n - 1), x \in S}

\* the arrays over S of length at most n
SeqsUpTo(S, n) == UNION {SeqsOver(S, k) : k \in 0..n}

NoDup(s) == \A i, j \in 1..Len(s) : s[i] = s[j] => i = j

\* the capacity an event is created with: a positive integer
CapacityDomain == 1..MaxCap

\* a document of the Event collection (the fields the handlers decide on)
EventDoc(cap, att, org) == [capacity |-> cap, attendees |-> att, organizer |-> org]

\* the document stored under id e, as a set: empty when there is none (null)
Doc(e) == IF e \in DOMAIN store THEN {store[e]} ELSE {}

\* Put as an update with no _id in its filter: every document becomes d
PutEverywhere(e, d) == [x \in DOMAIN store \cup {e} |-> d]

\* the collection with the document of e replaced by d
Put(e, d) == [x \in DOMAIN store \cup {e} |-> IF x = e THEN d ELSE store[x]]

\* the collection without the document of e
Drop(e) == [x \in DOMAIN store \ {e} |-> store[x]]

\* -------------------------------------------------------- store operators
\* JoinFilter without the $expr condition on the size
JoinFilterNoCapacity(d, userId) ==
    userId \notin Range(d.attendees)

\* JoinFilter without the $ne condition on the user
JoinFilterNoNe(d, userId) ==
    Len(d.attendees) < d.capacity

\* JoinFilter with $lte in place of $lt
JoinFilterOffByOne(d, userId) ==
    /\ Len(d.attendees) <= d.capacity
    /\ userId \notin Range(d.attendees)

\* JoinFilter that keeps the last place free
JoinFilterKeepsOneFree(d, userId) ==
    /\ Len(d.attendees) + 1 < d.capacity
    /\ userId \notin Range(d.attendees)

\* the filter of the join's findOneAndUpdate: _id, $expr $lt $size, $ne
JoinFilter(d, userId) ==
    /\ Len(d.attendees) < d.capacity
    /\ userId \notin Range(d.attendees)

\* Push with $set in place of $push
PushReplace(d, userId) == [d EXCEPT !.attendees = <<userId>>]

\* $push: { attendees: userId }
Push(d, userId) == [d EXCEPT !.attendees = Append(@, userId)]

\* PullSeq as $pop: the first element goes, whoever it is
PullHead(s, userId) == IF s = <<>> THEN <<>> ELSE Tail(s)

RECURSIVE PullSeq(_, _)
\* the array without every occurrence of userId, order kept
PullSeq(s, userId) ==
    IF s = <<>> THEN <<>>
    ELSE IF s[1] = userId THEN PullSeq(Tail(s), userId)
         ELSE <<s[1]>> \o PullSeq(Tail(s), userId)

\* Pull with $set: { attendees: [] } in place of $pull
PullAll(d, userId) == [d EXCEPT !.attendees = <<>>]

\* $pull: { attendees: userId }
Pull(d, userId) == [d EXCEPT !.attendees = PullSeq(@, userId)]

\* ------------------------------------------------------------- responses
NoResponse == [status |-> 0, message |-> "", error |-> FALSE, attendees |-> <<>>]

\* res.status(s).json({ message: m })
Message(s, m) == [status |-> s, message |-> m, error |-> FALSE, attendees |-> <<>>]

\* res.json({ message: m, attendees: a })
WithAttendees(m, a) == [status |-> 200, message |-> m, error |-> FALSE, attendees |-> a]

\* res.status(500).json({ error: err.message })
ServerError == [status |-> 500, message |-> "", error |-> TRUE, attendees |-> <<>>]

\* the req.body of an edit: for each field of the document, the value the
\* body gives it, as a set: empty when the body does not name the field
Body(cap, att, org) == [capacity |-> cap, attendees |-> att, organizer |-> org]

\* a body that names none of capacity, attendees, organizer
NoBody == Body({}, {}, {})

\* a request slot nobody has used yet
IdleReq ==
    [kind |-> "none", userId |-> "alice", eventId |-> "e1", pc |-> "idle",
     res |-> NoResponse, currentEvent |-> {}, atWrite |-> {},
     body |-> NoBody, writes |-> 0, reads |-> 0, failed |-> FALSE]

\* a request of the given kind by userId on eventId, at pc, answered with res
\* (atWrite keeps the document its first store operation found)
\* (body is the req.body of an edit; writes and reads count the store
\* operations the handler has issued: a join and a leave start with an update,
\* an edit and a delete with a findById; failed tells that one of them threw)
Request(kind, userId, eventId, pc, res) ==
    [kind |-> kind, userId |-> userId, eventId |-> eventId, pc |-> pc,
     res |-> res, currentEvent |-> {}, atWrite |-> Doc(eventId),
     body |-> NoBody,
     writes |-> IF kind \in {"join", "leave"} THEN 1 ELSE 0,
     reads |-> IF kind \in {"edit", "delete"} THEN 1 ELSE 0,
     failed |-> FALSE]

\* the next free slot: requests take the slots in order
NextFree(r) ==
    /\ req[r].pc = "idle"
    /\ \A q \in Reqs : q < r => req[q].pc # "idle"

\* ---------------------------------------------------------------- frontend
\* the tokens login is called with; "" is the empty token
Tokens == {"", "t1", "t2"}

\* the userData objects login is called with
UserDatas ==
    {[id |-> "u1", username |-> "alice"], [id |-> "u2", username |-> "bob"],
     [id |-> "u3", username |-> "carol"]}

\* JSON.stringify of a userData object: the text, as the list of its parts
Stringify(userData) == <<"{", userData.id, userData.username, "}">>

\* whether JSON.parse takes the text: the text of an object; any other text
\* makes it throw
Parses(text) == Len(text) = 4 /\ text[1] = "{" /\ text[4] = "}"

\* JSON.parse of the text of an object
Parse(text) == [id |-> text[2], username |-> text[3]]

\* the pages of the application, and those wrapped in ProtectedRoute
Paths == {"/", "/login", "/create-event"}
Protected == {"/create-event"}

\* the session the user last asked for: none yet
NoSession == [op |-> "none", token |-> "", userData |-> {}]

\* the browser before the page is opened for the first time: nothing in
\* localStorage (an item is a set: empty for null, else the one string; the
\* empty string of the "user" item is the empty list), AuthProvider not mounted
\* (user is a set: empty for null; effect tells that the mount effect has
\* not run yet; path is the location; session keeps the last login or
\* logout that was called)
Closed ==
    [mounted |-> FALSE, effect |-> FALSE, user |-> {}, loading |-> TRUE,
     path |-> "/",
     authToken |-> {}, savedUser |-> {},
     session |-> NoSession]

\* ProtectedRoute without the loading test
ProtectedRouteNoLoading(user, loading) ==
    IF user = {} THEN "Navigate /login" ELSE "children"

\* what ProtectedRoute renders
ProtectedRoute(user, loading) ==
    IF loading THEN "Loading..."
    ELSE IF user = {} THEN "Navigate /login"
    ELSE "children"

\* ------------------------------------------------------------------ Init
\* the organizer of the events that exist when the requests start
FirstOrganizer == "alice"

\* the users who joined before the requests start, in the order they joined
Roster == <<"alice", "bob", "carol">>

\* the documents the collection holds when the requests start: events created
\* by FirstOrganizer that the first users of Roster have joined
ValidDocs ==
    {EventDoc(c, SubSeq(Roster, 1, k), FirstOrganizer) :
        c \in CapacityDomain, k \in 0..Len(Roster)}

Populated(s) ==
    \A e \in DOMAIN s :
        /\ NoDup(s[e].attendees)
        /\ Len(s[e].attendees) <= s[e].capacity

Init ==
    /\ \E D \in SUBSET Events :
        \E s \in [D -> ValidDocs] :
            /\ Populated(s)
            /\ store = s
            /\ store0 = s
            /\ ids = D
    /\ req = [r \in Reqs |-> IdleReq]
    /\ browser = Closed

\* a collection whose one event is full
InitFull ==
    /\ \E d \in ValidDocs :
        /\ Len(d.attendees) = d.capacity
        /\ store = [e \in {"e1"} |-> d]
        /\ store0 = [e \in {"e1"} |-> d]
        /\ ids = {"e1"}
    /\ req = [r \in Reqs |-> IdleReq]
    /\ browser = Closed

\* --------------------------------------------------------------- actions
\* JoinUpdate with { upsert: true }: a join on a missing id inserts a record
JoinUpdateUpsert(r, userId, eventId) ==
    /\ NextFree(r)
    /\ IF eventId \notin DOMAIN store
       THEN /\ store' = Put(eventId, EventDoc(1, <<userId>>, userId))
            /\ req' = [req EXCEPT ![r] =
                 Request("join", userId, eventId, "done",
                         WithAttendees("RSVP Successful", <<userId>>))]
       ELSE IF JoinFilter(store[eventId], userId)
       THEN /\ store' = Put(eventId, Push(store[eventId], userId))
            /\ req' = [req EXCEPT ![r] =
                 Request("join", userId, eventId, "done",
                         WithAttendees("RSVP Successful",
                                       Push(store[eventId], userId).attendees))]
       ELSE /\ store' = store
            /\ req' = [req EXCEPT ![r] =
                 Request("join", userId, eventId, "findById", NoResponse)]
    /\ UNCHANGED <<ids, store0, browser>>

\* JoinUpdate without { new: true }: the response carries the document as it
\* was before the update
JoinUpdateNoNew(r, userId, eventId) ==
    /\ NextFree(r)
    /\ IF eventId \in DOMAIN store /\ JoinFilter(store[eventId], userId)
       THEN /\ store' = Put(eventId, Push(store[eventId], userId))
            /\ req' = [req EXCEPT ![r] =
                 Request("join", userId, eventId, "done",
                         WithAttendees("RSVP Successful",
                                       store[eventId].attendees))]
       ELSE /\ store' = store
            /\ req' = [req EXCEPT ![r] =
                 Request("join", userId, eventId, "findById", NoResponse)]
    /\ UNCHANGED <<ids, store0, browser>>

\* POST /:id/rsvp with action "join": Event.findOneAndUpdate and, when it
\* returns a document, the response
JoinUpdate(r, userId, eventId) ==
    /\ NextFree(r)
    /\ IF eventId \in DOMAIN store /\ JoinFilter(store[eventId], userId)
       THEN /\ store' = Put(eventId, Push(store[eventId], userId))
            /\ req' = [req EXCEPT ![r] =
                 Request("join", userId, eventId, "done",
                         WithAttendees("RSVP Successful",
                                       Push(store[eventId], userId).attendees))]
       ELSE /\ store' = store
            /\ req' = [req EXCEPT ![r] =
                 Request("join", userId, eventId, "findById", NoResponse)]
    /\ UNCHANGED <<ids, store0, browser>>

\* Classify with > in place of >= in the capacity test
ClassifyStrict(currentEvent, userId) ==
    IF currentEvent = {} THEN Message(404, "Event not found")
    ELSE LET d == CHOOSE x \in currentEvent : TRUE IN
         IF userId \in Range(d.attendees) THEN Message(400, "Already RSVPed")
         ELSE IF Len(d.attendees) > d.capacity THEN Message(400, "Event is full")
         ELSE Message(400, "RSVP Failed")

\* Classify with the capacity test before the membership test
ClassifyFullFirst(currentEvent, userId) ==
    IF currentEvent = {} THEN Message(404, "Event not found")
    ELSE LET d == CHOOSE x \in currentEvent : TRUE IN
         IF Len(d.attendees) >= d.capacity THEN Message(400, "Event is full")
         ELSE IF userId \in Range(d.attendees) THEN Message(400, "Already RSVPed")
         ELSE Message(400, "RSVP Failed")

\* the response of a rejected join, from the document read back
Classify(currentEvent, userId) ==
    IF currentEvent = {} THEN Message(404, "Event not found")
    ELSE LET d == CHOOSE x \in currentEvent : TRUE IN
         IF userId \in Range(d.attendees) THEN Message(400, "Already RSVPed")
         ELSE IF Len(d.attendees) >= d.capacity THEN Message(400, "Event is full")
         ELSE Message(400, "RSVP Failed")

\* JoinDiag with a retry: when the document read back has room for the
\* user, the handler issues the update again
JoinDiagRetry(r) ==
    LET e == req[r].eventId
        u == req[r].userId
    IN
    /\ req[r].pc = "findById"
    /\ req[r].kind = "join"
    /\ IF e \in DOMAIN store /\ JoinFilter(store[e], u)
       THEN /\ store' = Put(e, Push(store[e], u))
            /\ req' = [req EXCEPT ![r] =
                 [@ EXCEPT !.currentEvent = Doc(e),
                           !.reads = @ + 1,
                           !.writes = @ + 1,
                           !.pc = "done",
                           !.res = WithAttendees("RSVP Successful",
                                                 Push(store[e], u).attendees)]]
       ELSE /\ store' = store
            /\ req' = [req EXCEPT ![r] =
                 [@ EXCEPT !.currentEvent = Doc(e),
                           !.reads = @ + 1,
                           !.pc = "done",
                           !.res = Classify(Doc(e), u)]]
    /\ UNCHANGED <<ids, store0, browser>>

\* the rejected join's Event.findById and the response
JoinDiag(r) ==
    /\ req[r].pc = "findById"
    /\ req[r].kind = "join"
    /\ req' = [req EXCEPT ![r] =
         [@ EXCEPT !.currentEvent = Doc(req[r].eventId),
                   !.reads = @ + 1,
                   !.pc = "done",
                   !.res = Classify(Doc(req[r].eventId), req[r].userId)]]
    /\ UNCHANGED <<store, ids, store0, browser>>

\* POST /:id/rsvp with action "leave": Event.findByIdAndUpdate and the
\* response; event.attendees of a null event throws, and the catch answers 500
LeavePull(r, userId, eventId) ==
    /\ NextFree(r)
    /\ IF eventId \in DOMAIN store
       THEN /\ store' = Put(eventId, Pull(store[eventId], userId))
            /\ req' = [req EXCEPT ![r] =
                 Request("leave", userId, eventId, "done",
                         WithAttendees("RSVP Cancelled",
                                       Pull(store[eventId], userId).attendees))]
       ELSE /\ store' = store
            /\ req' = [req EXCEPT ![r] =
                 Request("leave", userId, eventId, "done", ServerError)]
    /\ UNCHANGED <<ids, store0, browser>>

\* POST /:id/rsvp with any other action
RsvpInvalid(r, userId, eventId) ==
    /\ NextFree(r)
    /\ req' = [req EXCEPT ![r] =
         Request("invalid", userId, eventId, "done", Message(400, "Invalid action"))]
    /\ UNCHANGED <<store, ids, store0, browser>>

\* the values of action in the req.body of an rsvp, as a set: empty when the
\* body names no action (undefined)
Actions == {{"join"}, {"leave"}, {"maybe"}, {}}

\* Rsvp with a final else that leaves: every action but "join" is a leave
RsvpDefaultLeave(r, userId, eventId, action) ==
    IF action = {"join"} THEN JoinUpdate(r, userId, eventId)
    ELSE LeavePull(r, userId, eventId)

\* POST /:id/rsvp: the branch the handler takes on action
Rsvp(r, userId, eventId, action) ==
    IF action = {"join"} THEN JoinUpdate(r, userId, eventId)
    ELSE IF action = {"leave"} THEN LeavePull(r, userId, eventId)
    ELSE RsvpInvalid(r, userId, eventId)

\* the decimal texts of the numbers 1, 2, ...
Digits == <<"1", "2", "3", "4">>

\* the capacity field of the create form: the text of a number, or other text
CapacityFields == {Digits[c] : c \in CapacityDomain} \cup {"many"}

\* the schema's cast of the capacity field to Number, as a set: empty when
\* the text is not a number and validation fails
CastNumber(text) == {c \in 1..Len(Digits) : Digits[c] = text}

\* NewEvent with the organizer signed up as the first attendee
NewEventSelfJoined(capacity, userId) == EventDoc(capacity, <<userId>>, userId)

\* new Event({ ..., capacity, organizer: req.user.id }): attendees is not
\* given and starts as the empty array
NewEvent(capacity, userId) == EventDoc(capacity, <<>>, userId)

\* res.status(201).json(savedEvent)
Created(savedEvent) ==
    [status |-> 201, message |-> "", error |-> FALSE,
     attendees |-> savedEvent.attendees]

\* res.status(500).json({ error: "Server Error" })
CreateError ==
    [status |-> 500, message |-> "Server Error", error |-> TRUE, attendees |-> <<>>]

\* POST /: the file test, the upload to imgbb (uploaded tells whether it
\* succeeded) and new Event, which assigns the _id; the save is still to come
Create(r, userId, capacity, file, uploaded) ==
    /\ NextFree(r)
    /\ IF ~file
       THEN /\ req' = [req EXCEPT ![r] =
                 Request("create", userId, "e1", "done",
                         Message(400, "Image is required"))]
            /\ ids' = ids
       ELSE IF ~uploaded
       THEN /\ req' = [req EXCEPT ![r] =
                 [Request("create", userId, "e1", "done", CreateError)
                    EXCEPT !.failed = TRUE]]
            /\ ids' = ids
       ELSE \E e \in Events \ ids :
            /\ req' = [req EXCEPT ![r] =
                 [Request("create", userId, e, "save", NoResponse)
                    EXCEPT !.body = Body(CastNumber(capacity), {}, {})]]
            /\ ids' = ids \cup {e}
    /\ UNCHANGED <<store, store0, browser>>

\* newEvent.save() and the response; saved tells whether the store took the
\* document, and a capacity that is not a number fails validation
CreateSave(r, saved) ==
    LET e == req[r].eventId
        u == req[r].userId
    IN
    /\ req[r].pc = "save"
    /\ req[r].kind = "create"
    /\ IF saved /\ req[r].body.capacity # {}
       THEN LET c == CHOOSE x \in req[r].body.capacity : TRUE IN
            /\ store' = Put(e, NewEvent(c, u))
            /\ req' = [req EXCEPT ![r] =
                 [@ EXCEPT !.writes = @ + 1,
                           !.pc = "done",
                           !.res = Created(NewEvent(c, u))]]
       ELSE /\ store' = store
            /\ req' = [req EXCEPT ![r] =
                 [@ EXCEPT !.writes = @ + 1,
                           !.failed = TRUE,
                           !.pc = "done",
                           !.res = CreateError]]
    /\ UNCHANGED <<ids, store0, browser>>

\* the organizer test of the edit and delete handlers, on the document read:
\* the answer that ends the handler, or no answer when it goes on
OwnerCheck(event, userId) ==
    IF event = {} THEN Message(404, "Event not found")
    ELSE IF \E d \in event : d.organizer # userId
         THEN Message(401, "User not authorized")
         ELSE NoResponse

\* DELETE /:id: Event.findById and the organizer test
DeleteRead(r, userId, eventId) ==
    /\ NextFree(r)
    /\ req' = [req EXCEPT ![r] =
         [Request("delete", userId, eventId,
                  IF OwnerCheck(Doc(eventId), userId) = NoResponse
                  THEN "deleteOne" ELSE "done",
                  OwnerCheck(Doc(eventId), userId))
          EXCEPT !.currentEvent = Doc(eventId)]]
    /\ UNCHANGED <<store, ids, store0, browser>>

\* DELETE /:id: event.deleteOne() and the response
DeleteOne(r) ==
    /\ req[r].pc = "deleteOne"
    /\ req[r].kind = "delete"
    /\ store' = Drop(req[r].eventId)
    /\ req' = [req EXCEPT ![r] =
         [@ EXCEPT !.writes = @ + 1,
                   !.pc = "done",
                   !.res = Message(200, "Event removed")]]
    /\ UNCHANGED <<ids, store0, browser>>

\* the document d with the fields the body names set to the body's values
ApplyBody(d, body) ==
    [capacity  |-> IF body.capacity = {} THEN d.capacity
                   ELSE CHOOSE c \in body.capacity : TRUE,
     attendees |-> IF body.attendees = {} THEN d.attendees
                   ELSE CHOOSE a \in body.attendees : TRUE,
     organizer |-> IF body.organizer = {} THEN d.organizer
                   ELSE CHOOSE o \in body.organizer : TRUE]

\* the request bodies of the edits: other fields only, a capacity, an
\* attendees array, an organizer
Bodies ==
    {NoBody}
      \cup {Body({c}, {}, {}) : c \in CapacityDomain}
      \cup {Body({}, {<<>>}, {})}
      \cup {Body({}, {}, {u}) : u \in Users}

\* res.json(updatedEvent): the document written, or null
Updated(event) ==
    [status |-> 200, message |-> "", error |-> FALSE,
     attendees |-> IF event = {} THEN <<>>
                   ELSE (CHOOSE d \in event : TRUE).attendees]

\* PUT /:id: Event.findById and the organizer test
EditRead(r, userId, eventId, body) ==
    /\ NextFree(r)
    /\ req' = [req EXCEPT ![r] =
         [Request("edit", userId, eventId,
                  IF OwnerCheck(Doc(eventId), userId) = NoResponse
                  THEN "findByIdAndUpdate" ELSE "done",
                  OwnerCheck(Doc(eventId), userId))
          EXCEPT !.currentEvent = Doc(eventId), !.body = body]]
    /\ UNCHANGED <<store, ids, store0, browser>>

\* PUT /:id: Event.findByIdAndUpdate(id, req.body, { new: true }) and the
\* response
EditUpdate(r) ==
    LET e == req[r].eventId IN
    /\ req[r].pc = "findByIdAndUpdate"
    /\ req[r].kind = "edit"
    /\ IF e \in DOMAIN store
       THEN /\ store' = Put(e, ApplyBody(store[e], req[r].body))
            /\ req' = [req EXCEPT ![r] =
                 [@ EXCEPT !.writes = @ + 1,
                           !.pc = "done",
                           !.res = Updated({ApplyBody(store[e], req[r].body)})]]
       ELSE /\ store' = store
            /\ req' = [req EXCEPT ![r] =
                 [@ EXCEPT !.writes = @ + 1,
                           !.pc = "done",
                           !.res = Updated({})]]
    /\ UNCHANGED <<ids, store0, browser>>

\* POST /:id/rsvp whose first store operation throws: the catch answers 500
RsvpFails(r, userId, eventId, action) ==
    /\ NextFree(r)
    /\ action \in {"join", "leave"}
    /\ req' = [req EXCEPT ![r] =
         [Request(action, userId, eventId, "done", ServerError)
          EXCEPT !.failed = TRUE]]
    /\ UNCHANGED <<store, ids, store0, browser>>

\* the rejected join's Event.findById throws: the catch answers 500
JoinDiagFails(r) ==
    /\ req[r].pc = "findById"
    /\ req[r].kind = "join"
    /\ req' = [req EXCEPT ![r] =
         [@ EXCEPT !.reads = @ + 1,
                   !.failed = TRUE,
                   !.pc = "done",
                   !.res = ServerError]]
    /\ UNCHANGED <<store, ids, store0, browser>>

\* the application is opened at a page, or reloaded: AuthProvider mounts
\* with user null and loading true, and its effect is scheduled
Mount(path) ==
    /\ ~browser.mounted
    /\ browser' = [browser EXCEPT !.mounted = TRUE, !.effect = TRUE,
                                  !.user = {}, !.loading = TRUE,
                                  !.path = path]
    /\ UNCHANGED <<store, ids, req, store0>>

\* CheckLoggedIn that trusts the token alone and restores no user
CheckLoggedInNoRestore ==
    /\ browser.mounted /\ browser.effect
    /\ browser' = [browser EXCEPT
         !.authToken = IF @ = {} THEN {""} ELSE @,
         !.loading = FALSE,
         !.effect = FALSE]
    /\ UNCHANGED <<store, ids, req, store0>>

\* the mount effect: checkLoggedIn, which has no await and runs to its end
CheckLoggedIn ==
    /\ browser.mounted /\ browser.effect
    /\ LET token == IF browser.authToken = {} THEN ""
                    ELSE CHOOSE t \in browser.authToken : TRUE
           savedUser == browser.savedUser
           restores == /\ token # ""
                       /\ savedUser # {} /\ savedUser # {<<>>}
                       /\ \A text \in savedUser : Parses(text)
       IN  browser' = [browser EXCEPT
             !.authToken = {token},
             !.user = IF restores THEN {Parse(text) : text \in savedUser} ELSE @,
             !.loading = FALSE,
             !.effect = FALSE]
    /\ UNCHANGED <<store, ids, req, store0>>

\* login(token, userData)
Login(token, userData) ==
    /\ browser.mounted
    /\ browser' = [browser EXCEPT
         !.authToken = {token},
         !.savedUser = {Stringify(userData)},
         !.user = {userData},
         !.session = [op |-> "login", token |-> token, userData |-> {userData}]]
    /\ UNCHANGED <<store, ids, req, store0>>

\* Navbar's handleLogout: logout(), then navigate("/login")
Logout ==
    /\ browser.mounted
    /\ browser' = [browser EXCEPT
         !.authToken = {""},
         !.savedUser = {<<>>},
         !.user = {},
         !.path = "/login",
         !.session = [op |-> "logout", token |-> "", userData |-> {}]]
    /\ UNCHANGED <<store, ids, req, store0>>

\* a Link is followed
Go(path) ==
    /\ browser.mounted
    /\ browser.path # path
    /\ browser' = [browser EXCEPT !.path = path]
    /\ UNCHANGED <<store, ids, req, store0>>

\* the <Navigate to="/login" /> that ProtectedRoute rendered takes effect
Redirect ==
    /\ browser.mounted
    /\ browser.path \in Protected
    /\ ProtectedRoute(browser.user, browser.loading) = "Navigate /login"
    /\ browser' = [browser EXCEPT !.path = "/login"]
    /\ UNCHANGED <<store, ids, req, store0>>

\* the page is closed or reloaded: the component's state is gone,
\* localStorage stays
Unmount ==
    /\ browser.mounted
    /\ browser' = [browser EXCEPT !.mounted = FALSE, !.effect = FALSE,
                                  !.user = {}, !.loading = TRUE]
    /\ UNCHANGED <<store, ids, req, store0>>

\* ---------------------------------------------------------- specifications
\* join and leave requests against a populated collection
NextRsvp ==
    \E r \in Reqs :
        \/ \E u \in Users, e \in Events : JoinUpdate(r, u, e)
        \/ JoinDiag(r)
        \/ \E u \in Users, e \in Events : LeavePull(r, u, e)

SpecRsvp == Init /\ [][NextRsvp]_vars

\* the store answers every operation it was sent, so a handler that awaits
\* its diagnostic read goes on
FairRsvp ==
    /\ InitFull
    /\ [][NextRsvp]_vars
    /\ \A r \in Reqs : WF_vars(JoinDiag(r))

\* joins racing with the organizer's delete
NextDelete ==
    \E r \in Reqs :
        \/ \E u \in Users, e \in Events : JoinUpdate(r, u, e)
        \/ JoinDiag(r)
        \/ \E u \in Users, e \in Events : DeleteRead(r, u, e)
        \/ DeleteOne(r)

SpecDelete == Init /\ [][NextDelete]_vars

\* the organizer's edits and deletes of a full event
NextOwner ==
    \E r \in Reqs :
        \/ \E u \in Users, e \in Events, b \in Bodies : EditRead(r, u, e, b)
        \/ EditUpdate(r)
        \/ \E u \in Users, e \in Events : DeleteRead(r, u, e)
        \/ DeleteOne(r)

SpecOwner == InitFull /\ [][NextOwner]_vars

\* join and leave requests against a store whose operations can fail
NextFault ==
    \E r \in Reqs :
        \/ \E u \in Users, e \in Events : JoinUpdate(r, u, e)
        \/ JoinDiag(r)
        \/ \E u \in Users, e \in Events : LeavePull(r, u, e)
        \/ \E u \in Users, e \in Events, a \in {"join", "leave"} :
             RsvpFails(r, u, e, a)
        \/ JoinDiagFails(r)

SpecFault == Init /\ [][NextFault]_vars

\* rsvp requests with any action, on a full event
NextInvalid ==
    \E r \in Reqs :
        \/ \E u \in Users, e \in Events, a \in Actions : Rsvp(r, u, e, a)
        \/ JoinDiag(r)

SpecInvalid == InitFull /\ [][NextInvalid]_vars

\* creations next to the events that exist
NextCreate ==
    \E r \in Reqs :
        \/ \E u \in Users, c \in CapacityFields, f, up \in BOOLEAN :
             Create(r, u, c, f, up)
        \/ \E s \in BOOLEAN : CreateSave(r, s)

SpecCreate == Init /\ [][NextCreate]_vars

\* the frontend alone: no event, no request
InitAuth ==
    /\ store = [e \in {} |-> EventDoc(1, <<>>, FirstOrganizer)]
    /\ store0 = store
    /\ ids = {}
    /\ req = [r \in Reqs |-> IdleReq]
    /\ browser = Closed

\* mounts, logins, logouts and navigation in any order
NextAuth ==
    \/ \E path \in Paths : Mount(path)
    \/ CheckLoggedIn
    \/ \E token \in Tokens, userData \in UserDatas : Login(token, userData)
    \/ Logout
    \/ \E path \in Paths : Go(path)
    \/ Redirect
    \/ Unmount

SpecAuth == InitAuth /\ [][NextAuth]_vars

\* React runs the effect of a mounted component
FairAuth == SpecAuth /\ WF_vars(CheckLoggedIn)

Next ==
    \E r \in Reqs :
        \/ \E u \in Users, e \in Events : JoinUpdate(r, u, e)
        \/ JoinDiag(r)
        \/ \E u \in Users, e \in Events : LeavePull(r, u, e)
        \/ \E u \in Users, e \in Events : RsvpInvalid(r, u, e)
        \/ \E u \in Users, e \in Events, b \in Bodies : EditRead(r, u, e, b)
        \/ EditUpdate(r)
        \/ \E u \in Users, e \in Events : DeleteRead(r, u, e)
        \/ DeleteOne(r)
        \/ \E u \in Users, e \in Events, a \in {"join", "leave"} :
             RsvpFails(r, u, e, a)
        \/ JoinDiagFails(r)
        \/ \E u \in Users, c \in CapacityFields, f, up \in BOOLEAN :
             Create(r, u, c, f, up)
        \/ \E s \in BOOLEAN : CreateSave(r, s)
        \/ NextAuth

Spec == Init /\ [][Next]_vars

TypeOK ==
    /\ DOMAIN store \subseteq Events
    /\ \A r \in Reqs : req[r].pc \in {"idle", "findById", "deleteOne", "findByIdAndUpdate",
                                     "save", "done"}

\* ------------------------------------------------------ outcomes of a call
Done(r) == req[r].pc = "done"
Issued(r) == req[r].pc # "idle"
IsJoin(r) == Issued(r) /\ req[r].kind = "join"
IsLeave(r) == Issued(r) /\ req[r].kind = "leave"

Admitted(r) ==
    /\ Done(r) /\ req[r].kind = "join"
    /\ req[r].res.status = 200 /\ req[r].res.message = "RSVP Successful"
EventNotFound(r) ==
    Done(r) /\ req[r].kind = "join" /\ req[r].res = Message(404, "Event not found")
AlreadyMember(r) ==
    Done(r) /\ req[r].kind = "join" /\ req[r].res = Message(400, "Already RSVPed")
CapacityExceeded(r) ==
    Done(r) /\ req[r].kind = "join" /\ req[r].res = Message(400, "Event is full")
AdmissionRejected(r) ==
    Done(r) /\ req[r].kind = "join" /\ req[r].res = Message(400, "RSVP Failed")
Left(r) ==
    /\ Done(r) /\ req[r].kind = "leave"
    /\ req[r].res.status = 200 /\ req[r].res.message = "RSVP Cancelled"

\* the requests that have reached the store for event e
On(e) == {r \in Reqs : Issued(r) /\ req[r].eventId = e}

Max(a, b) == IF a >= b THEN a ELSE b

\* ------------------------------------------------------------------ claims
\* C1: capacity invariant.  Under every interleaving of join and leave
\* requests, every existing event has at most capacity attendees.
C1_CapacityInvariant ==
    \A e \in DOMAIN store : Len(store[e].attendees) <= store[e].capacity

\* an admitted join has filled an event and a later join has been turned away
C1_Witness ==
    \E e \in DOMAIN store, r, q \in Reqs :
        /\ Len(store[e].attendees) = store[e].capacity
        /\ Admitted(r) /\ req[r].eventId = e
        /\ CapacityExceeded(q) /\ req[q].eventId = e

\* C2: uniqueness invariant.  Under every interleaving of join and leave
\* requests, no user occurs twice in an event's attendees array.
C2_UniquenessInvariant ==
    \A e \in DOMAIN store : NoDup(store[e].attendees)

\* the same user has joined one event twice: one call admitted, one refused,
\* while the event still has a free slot
C2_Witness ==
    \E e \in DOMAIN store, r, q \in Reqs :
        /\ r # q
        /\ req[r].eventId = e /\ req[q].eventId = e
        /\ req[r].userId = req[q].userId
        /\ Admitted(r) /\ AlreadyMember(q)
        /\ Len(store[e].attendees) < store[e].capacity

\* two joins of distinct non-members on an event with one free slot, with
\* nothing else on that event
LastSlotRace(e, q, r) ==
    /\ q # r
    /\ e \in DOMAIN store0
    /\ On(e) = {q, r}
    /\ IsJoin(q) /\ IsJoin(r)
    /\ req[q].userId # req[r].userId
    /\ req[q].userId \notin Range(store0[e].attendees)
    /\ req[r].userId \notin Range(store0[e].attendees)
    /\ Len(store0[e].attendees) + 1 = store0[e].capacity
    /\ Done(q) /\ Done(r)

\* C3: last-slot race.  Of two concurrent joins by distinct non-members on
\* an event with exactly one free slot, exactly one is admitted and the other
\* is told the event is full; the attendees are the old ones plus the admitted
\* user.
C3_LastSlotRace ==
    \A e \in Events, q, r \in Reqs :
        LastSlotRace(e, q, r) =>
            \E w, l \in {q, r} :
                /\ w # l
                /\ Admitted(w) /\ CapacityExceeded(l)
                /\ store[e].attendees = Append(store0[e].attendees, req[w].userId)
                /\ req[w].res.attendees = store[e].attendees

\* the race has happened, on an event that already had an attendee
C3_Witness ==
    \E e \in Events, q, r \in Reqs :
        /\ LastSlotRace(e, q, r)
        /\ store0[e].attendees # <<>>

\* N joins by distinct users on an empty event of capacity K < N, all
\* answered, with nothing else on that event
Probe(e) ==
    /\ e \in DOMAIN store0
    /\ store0[e].attendees = <<>>
    /\ \A r \in On(e) : IsJoin(r) /\ Done(r)
    /\ \A q, r \in On(e) : req[q].userId = req[r].userId => q = r
    /\ Cardinality(On(e)) > store0[e].capacity

\* C4: linearizability probe.  N > K joins by distinct users on an empty
\* event of capacity K give exactly K admissions and N - K "Event is full",
\* and K stored attendees.
C4_LinearizabilityProbe ==
    \A e \in Events :
        Probe(e) =>
            /\ Cardinality({r \in On(e) : Admitted(r)}) = store0[e].capacity
            /\ Cardinality({r \in On(e) : CapacityExceeded(r)})
                 = Cardinality(On(e)) - store0[e].capacity
            /\ Len(store[e].attendees) = store0[e].capacity

\* three joins on an event of capacity two
C4_Witness ==
    \E e \in Events :
        /\ Probe(e)
        /\ store0[e].capacity = 2
        /\ Cardinality(On(e)) = 3

\* only joins have reached event e, which existed from the start
JoinsOnly(e) ==
    /\ e \in DOMAIN store0
    /\ \A r \in On(e) : IsJoin(r)

\* C5: admission count bound.  When only joins are issued on an event of
\* capacity C that starts with M attendees, at most max(0, C - M) of them are
\* admitted and every other one is answered "Event is full" or
\* "Already RSVPed".
C5_AdmissionBound ==
    \A e \in Events :
        JoinsOnly(e) =>
            /\ Cardinality({r \in On(e) : Admitted(r)})
                 <= Max(0, store0[e].capacity - Len(store0[e].attendees))
            /\ \A r \in On(e) :
                 Done(r) => Admitted(r) \/ CapacityExceeded(r) \/ AlreadyMember(r)

\* one event has answered one join of each kind: admitted, already a member,
\* full
C5_Witness ==
    \E e \in Events :
        /\ JoinsOnly(e)
        /\ \E a, b, c \in On(e) :
             Admitted(a) /\ AlreadyMember(b) /\ CapacityExceeded(c)

\* request r takes its slot in this step, as a call of the given kind
Starts(r, kind) == req[r].pc = "idle" /\ req'[r].kind = kind

\* C6: join is all or nothing.  The store operation of a join by U on e
\* either appends U, who was not an attendee, to the attendees of e and
\* changes nothing else, or changes nothing; the diagnostic read changes
\* nothing.
C6_JoinAllOrNothing ==
    [][\A r \in Reqs :
        /\ Starts(r, "join") =>
             LET u == req'[r].userId
                 e == req'[r].eventId
             IN  \/ store' = store
                 \/ /\ e \in DOMAIN store
                    /\ u \notin Range(store[e].attendees)
                    /\ store' = [store EXCEPT ![e].attendees = Append(@, u)]
        /\ (req[r].pc = "findById" /\ req'[r].pc = "done") => store' = store
      ]_vars

\* a join has been admitted to an event that had an attendee, who is still
\* there, and another join has been refused
C6_Witness ==
    \E r, q \in Reqs :
        /\ Admitted(r) /\ Len(req[r].res.attendees) = 2
        /\ req[q].kind = "join" /\ Done(q) /\ ~Admitted(q)

\* C7: leave removes only the caller.  A leave by U on an existing event e
\* takes U out of the attendees of e, keeps every other attendee, and changes
\* nothing when U is not an attendee; no other field or event changes.
C7_LeaveRemovesOnlyCaller ==
    [][\A r \in Reqs :
        Starts(r, "leave") =>
            LET u == req'[r].userId
                e == req'[r].eventId
            IN  IF e \in DOMAIN store
                THEN /\ DOMAIN store' = DOMAIN store
                     /\ \A x \in DOMAIN store \ {e} : store'[x] = store[x]
                     /\ store'[e].capacity = store[e].capacity
                     /\ store'[e].organizer = store[e].organizer
                     /\ Range(store'[e].attendees) = Range(store[e].attendees) \ {u}
                     /\ Len(store'[e].attendees) = Cardinality(Range(store'[e].attendees))
                     /\ (u \notin Range(store[e].attendees) => store' = store)
                ELSE store' = store
      ]_vars

\* one leave has taken its caller out and left another attendee in, and one
\* leave by a non-attendee has been answered
C7_Witness ==
    \E r, q \in Reqs :
        /\ Left(r) /\ req[r].atWrite # {}
        /\ \E d \in req[r].atWrite :
             /\ req[r].userId \in Range(d.attendees)
             /\ Len(d.attendees) = 2
        /\ Len(req[r].res.attendees) = 1
        /\ Left(q) /\ \E d \in req[q].atWrite : req[q].userId \notin Range(d.attendees)

\* C8: leave never errors.  Every answered leave is answered 200
\* "RSVP Cancelled", also when the user is not an attendee and when the event
\* does not exist.
C8_LeaveNeverErrors ==
    \A r \in Reqs : (IsLeave(r) /\ Done(r)) => Left(r)

\* C9: leave is idempotent.  Two leaves in a row by the same user on an
\* existing event get the same successful answer, and the attendees after
\* the second are the attendees after the first.
C9_LeaveIdempotent ==
    \A q \in Reqs :
        (/\ q + 1 \in Reqs
         /\ IsLeave(q) /\ IsLeave(q + 1)
         /\ req[q].eventId = req[q + 1].eventId
         /\ req[q].userId = req[q + 1].userId
         /\ req[q].atWrite # {})
        => /\ Left(q) /\ Left(q + 1)
           /\ req[q + 1].res = req[q].res
           /\ req[q + 1].atWrite = {[d EXCEPT !.attendees = req[q].res.attendees] : d \in req[q].atWrite}
           /\ (\A s \in Reqs : s > q + 1 => ~Issued(s))
                => store[req[q].eventId].attendees = req[q].res.attendees

\* an attendee of an event with two attendees has left it twice in a row
C9_Witness ==
    \E q \in Reqs :
        /\ q + 1 \in Reqs
        /\ Left(q) /\ Left(q + 1)
        /\ req[q].eventId = req[q + 1].eventId
        /\ req[q].userId = req[q + 1].userId
        /\ \E d \in req[q].atWrite :
             req[q].userId \in Range(d.attendees) /\ Len(d.attendees) = 2
        /\ \A s \in Reqs : s > q + 1 => ~Issued(s)

\* the document e had when join r reached the store is the document its
\* diagnostic read found, and the caller is one of its attendees
DuplicateJoin(r) ==
    /\ req[r].kind = "join" /\ Done(r)
    /\ req[r].atWrite # {}
    /\ req[r].currentEvent = req[r].atWrite
    /\ \E d \in req[r].atWrite : req[r].userId \in Range(d.attendees)

\* C10: a duplicate join is rejected as AlreadyMember.  A join by an attendee,
\* with the event unchanged between its write and its diagnostic read, is
\* answered 400 "Already RSVPed", also when the event is full, and neither of
\* its two store operations changes the collection.
C10_DuplicateJoinRejected ==
    /\ [](\A r \in Reqs : DuplicateJoin(r) => AlreadyMember(r))
    /\ [][\A r \in Reqs :
            /\ (/\ Starts(r, "join")
                /\ req'[r].eventId \in DOMAIN store
                /\ req'[r].userId \in Range(store[req'[r].eventId].attendees))
               => (store' = store /\ req'[r].pc = "findById")
            /\ (req[r].pc = "findById" /\ req'[r].pc = "done") => store' = store
         ]_vars

\* an attendee of a full event has joined it again and has been answered
C10_Witness ==
    \E r \in Reqs :
        /\ DuplicateJoin(r)
        /\ \E d \in req[r].atWrite : Len(d.attendees) = d.capacity

\* join r by a non-attendee found its event full, and its diagnostic read
\* found the same document
SaturatedJoin(r) ==
    /\ req[r].kind = "join" /\ Done(r)
    /\ req[r].atWrite # {}
    /\ req[r].currentEvent = req[r].atWrite
    /\ \E d \in req[r].atWrite :
         /\ req[r].userId \notin Range(d.attendees)
         /\ Len(d.attendees) = d.capacity

\* C11: a saturated event rejects joins.  A join by a non-attendee on a full
\* event, with the event unchanged up to the diagnostic read, is answered 400
\* "Event is full", and its write leaves the collection as it was.
C11_SaturatedRejects ==
    /\ [](\A r \in Reqs : SaturatedJoin(r) => CapacityExceeded(r))
    /\ [][\A r \in Reqs :
            (/\ Starts(r, "join")
             /\ req'[r].eventId \in DOMAIN store
             /\ req'[r].userId \notin Range(store[req'[r].eventId].attendees)
             /\ Len(store[req'[r].eventId].attendees)
                  = store[req'[r].eventId].capacity)
            => (store' = store /\ req'[r].pc = "findById")
         ]_vars

\* a non-attendee has been turned away from a full event with two attendees
C11_Witness ==
    \E r \in Reqs :
        /\ SaturatedJoin(r)
        /\ \E d \in req[r].atWrite : Len(d.attendees) = 2

\* C12: join on a missing event.  A join on an id with no stored record is
\* answered 404 "Event not found", and none of its steps creates a record.
C12_JoinMissingEvent ==
    /\ [](\A r \in Reqs :
            (req[r].kind = "join" /\ Done(r) /\ req[r].atWrite = {})
            => EventNotFound(r))
    /\ [][\A r \in Reqs :
            (\/ Starts(r, "join")
             \/ (req[r].kind = "join" /\ req[r].pc = "findById" /\ req'[r].pc = "done"))
            => (req'[r].eventId \notin DOMAIN store => store' = store)
         ]_vars

\* a join on a missing id has been answered while another event exists
C12_Witness ==
    \E r \in Reqs :
        /\ req[r].kind = "join" /\ Done(r) /\ req[r].atWrite = {}
        /\ DOMAIN store # {}

\* slot q is a leave by an attendee of a full event and slot q + 1 is a join
\* on that event by somebody who was not an attendee
LeaveThenJoin(q) ==
    /\ q + 1 \in Reqs
    /\ IsLeave(q) /\ IsJoin(q + 1) /\ Done(q + 1)
    /\ req[q].eventId = req[q + 1].eventId
    /\ \E d \in req[q].atWrite :
         /\ Len(d.attendees) = d.capacity
         /\ req[q].userId \in Range(d.attendees)
         /\ req[q + 1].userId \notin Range(d.attendees)

\* C13: leave frees a slot.  After a leave by attendee B of a full event, an
\* immediately following join by non-attendee D is admitted, and the attendees
\* are the original ones minus B plus D.
C13_LeaveFreesSlot ==
    \A q \in Reqs :
        LeaveThenJoin(q) =>
            /\ Left(q) /\ Admitted(q + 1)
            /\ \A d \in req[q].atWrite :
                 Range(req[q + 1].res.attendees)
                   = (Range(d.attendees) \ {req[q].userId}) \cup {req[q + 1].userId}
            /\ Len(req[q + 1].res.attendees) = Len(req[q].res.attendees) + 1
            /\ (\A s \in Reqs : s > q + 1 => ~Issued(s))
                 => store[req[q].eventId].attendees = req[q + 1].res.attendees

\* the leave and the join have happened on a full event of capacity two
C13_Witness ==
    \E q \in Reqs :
        /\ LeaveThenJoin(q)
        /\ \E d \in req[q].atWrite : d.capacity = 2

\* two joins by one non-attendee on an event with a free slot, with nothing
\* else on that event
DoubleJoin(e, q, r) ==
    /\ q # r
    /\ e \in DOMAIN store0
    /\ On(e) = {q, r}
    /\ IsJoin(q) /\ IsJoin(r)
    /\ req[q].userId = req[r].userId
    /\ req[q].userId \notin Range(store0[e].attendees)
    /\ Len(store0[e].attendees) < store0[e].capacity
    /\ Done(q) /\ Done(r)

\* C14: same-user double join.  Of two concurrent joins by one non-attendee
\* on an event with a free slot, exactly one is admitted and the other is
\* answered "Already RSVPed"; the user is in the attendees exactly once.
C14_SameUserDoubleJoin ==
    \A e \in Events, q, r \in Reqs :
        DoubleJoin(e, q, r) =>
            /\ \E w, l \in {q, r} : w # l /\ Admitted(w) /\ AlreadyMember(l)
            /\ Cardinality({i \in 1..Len(store[e].attendees) :
                              store[e].attendees[i] = req[q].userId}) = 1
            /\ store[e].attendees = Append(store0[e].attendees, req[q].userId)

\* the double join has happened on an event with exactly one free slot
C14_Witness ==
    \E e \in Events, q, r \in Reqs :
        /\ DoubleJoin(e, q, r)
        /\ Len(store0[e].attendees) + 1 = store0[e].capacity

\* no join by the user of leave r on its event has reached the store after r
NoLaterJoin(r) ==
    \A s \in Reqs :
        s > r => ~(IsJoin(s) /\ req[s].eventId = req[r].eventId
                              /\ req[s].userId = req[r].userId)

\* C15: leave racing with joins.  Whatever joins interleave with a leave, the
\* event never has more attendees than its capacity, and once the leave is
\* answered its user is not an attendee unless that user joins again later.
C15_LeaveRacingJoins ==
    \A r \in Reqs :
        Left(r) =>
            LET e == req[r].eventId IN
            /\ Len(store[e].attendees) <= store[e].capacity
            /\ NoLaterJoin(r) => req[r].userId \notin Range(store[e].attendees)

\* an attendee left a full event between the write and the diagnostic read
\* of another user's rejected join, and a third user took the freed slot
C15_Witness ==
    \E q, r, s \in Reqs :
        /\ q < r /\ r < s
        /\ Left(r) /\ \E d \in req[r].atWrite : req[r].userId \in Range(d.attendees)
        /\ AdmissionRejected(q) /\ req[q].eventId = req[r].eventId
        /\ Admitted(s) /\ req[s].eventId = req[r].eventId
        /\ NoLaterJoin(r)

\* C20: single attempt, no waiting.  A join issues exactly one conditional
\* write and, only when that write is rejected, exactly one diagnostic read;
\* a leave issues exactly one update; an answered call is never answered
\* again; and every call that reached the store is answered, whatever the
\* other callers do.
C20_SingleAttempt ==
    /\ [](\A r \in Reqs :
            /\ IsJoin(r) =>
                 /\ req[r].writes = 1
                 /\ req[r].reads = IF Done(r) /\ ~Admitted(r) THEN 1 ELSE 0
            /\ IsLeave(r) => (Done(r) /\ req[r].writes = 1 /\ req[r].reads = 0))
    /\ [][\A r \in Reqs : Done(r) => req'[r] = req[r]]_vars
    /\ \A r \in Reqs : Issued(r) ~> Done(r)

\* of three calls on one event, a join was admitted, a join was rejected and
\* read the event back while a later leave had already changed it
C20_Witness ==
    \E a, b, c \in Reqs :
        /\ Admitted(a) /\ req[a].reads = 0
        /\ AdmissionRejected(b) /\ req[b].reads = 1
        /\ Left(c) /\ b < c /\ req[c].eventId = req[b].eventId

IsDelete(r) == Issued(r) /\ req[r].kind = "delete"
IsEdit(r) == Issued(r) /\ req[r].kind = "edit"
Removed(r) == IsDelete(r) /\ Done(r) /\ req[r].res = Message(200, "Event removed")

\* C16: deletion racing with join.  Whatever the interleaving of the
\* organizer's delete with joins, a join whose write finds no record is
\* answered 404 "Event not found", no step of a join adds a record or writes
\* to a missing event, and after the delete is answered the event is absent.
C16_DeleteRacingJoin ==
    /\ [](\A r \in Reqs :
            /\ (req[r].kind = "join" /\ Done(r) /\ req[r].atWrite = {})
                 => EventNotFound(r)
            /\ Removed(r) => req[r].eventId \notin DOMAIN store)
    /\ [][\A r \in Reqs :
            (\/ Starts(r, "join")
             \/ (req[r].kind = "join" /\ req[r].pc = "findById" /\ req'[r].pc = "done"))
            => /\ DOMAIN store' = DOMAIN store
               /\ req'[r].eventId \notin DOMAIN store => store' = store
         ]_vars

\* a join was admitted between the delete's ownership read and its
\* deleteOne, and a join that came after the deleteOne found no event
C16_Witness ==
    \E d, a, n \in Reqs :
        /\ Removed(d)
        /\ d < a /\ Admitted(a) /\ req[a].eventId = req[d].eventId
        /\ EventNotFound(n) /\ req[n].eventId = req[d].eventId
        /\ req[n].atWrite = {}
        /\ req[d].eventId \in DOMAIN store0

\* a step of request r that ends its handler from the given position
Ends(r, pc) == req[r].pc = pc /\ req'[r].pc = "done"

\* C17: membership is mutated only by join and leave.  No step other than a
\* join's or a leave's update changes the attendees or the capacity of an
\* event, so every event keeps at most capacity attendees, none of them twice.
C17_OnlyRsvpMutates ==
    /\ [][\A e \in DOMAIN store \cap DOMAIN store' :
            (\/ store'[e].attendees # store[e].attendees
             \/ store'[e].capacity # store[e].capacity)
            => \E r \in Reqs : Starts(r, "join") \/ Starts(r, "leave")
         ]_vars
    /\ [](\A e \in DOMAIN store :
            /\ Len(store[e].attendees) <= store[e].capacity
            /\ NoDup(store[e].attendees))

\* C18: owner-only edit and delete.  The write of an edit or a delete changes
\* the collection only when its user is the organizer of the event at that
\* moment; a user who was not the organizer at the read is answered 401, and a
\* request that finds no event, at the read or at the write, is answered 404.
C18_OwnerOnly ==
    /\ [][\A r \in Reqs :
            (Ends(r, "deleteOne") \/ Ends(r, "findByIdAndUpdate")) =>
                LET e == req[r].eventId IN
                /\ store' # store =>
                     (e \in DOMAIN store /\ store[e].organizer = req[r].userId)
                /\ e \notin DOMAIN store =>
                     req'[r].res = Message(404, "Event not found")
         ]_vars
    /\ [](\A r \in Reqs :
            ((IsEdit(r) \/ IsDelete(r)) /\ Done(r)) =>
                /\ req[r].atWrite = {} => req[r].res = Message(404, "Event not found")
                /\ (\E d \in req[r].atWrite : d.organizer # req[r].userId)
                     => req[r].res = Message(401, "User not authorized"))

\* C19: infrastructure failures are distinct from precondition violations.
\* An rsvp call is answered 500 with an error field exactly when one of its
\* store operations failed, and a call with a failed operation leaves the
\* collection unchanged.
C19_FailuresDistinct ==
    /\ [](\A r \in Reqs :
            ((IsJoin(r) \/ IsLeave(r)) /\ Done(r)) =>
                /\ req[r].res.status = 500 <=> req[r].failed
                /\ req[r].res.error <=> req[r].failed)
    /\ [][\A r \in Reqs :
            (req'[r].failed /\ ~req[r].failed) => store' = store]_vars

\* C22: a rejected join is a no-op on the store.  The step in which the
\* conditional write of a join is rejected leaves the whole collection as it
\* was; the diagnostic read that follows leaves it as it was too, issues no
\* write, and answers with one of the four failures, never with an admission.
C22_RejectedJoinNoOp ==
    [][\A r \in Reqs :
        /\ (Starts(r, "join") /\ req'[r].pc = "findById") =>
             /\ store' = store
             /\ req'[r].res = NoResponse
        /\ (req[r].kind = "join" /\ Ends(r, "findById")) =>
             /\ store' = store
             /\ req'[r].writes = req[r].writes
             /\ req'[r].res \in {Message(404, "Event not found"),
                                 Message(400, "Already RSVPed"),
                                 Message(400, "Event is full"),
                                 Message(400, "RSVP Failed")}
      ]_vars

\* one join got the generic rejection and another found no event, and the
\* event of the first holds somebody
C22_Witness ==
    \E r, q \in Reqs :
        /\ AdmissionRejected(r) /\ EventNotFound(q)
        /\ req[r].eventId \in DOMAIN store
        /\ store[req[r].eventId].attendees # <<>>

\* C23: the generic rejection needs an intervening change.  A join answered
\* 'RSVP Failed' read back a record other than the one its conditional write
\* was evaluated on, and another request on the same event has reached the
\* store; a rejected join that reads back the record its write was evaluated
\* on is answered 'Event not found', 'Already RSVPed' or 'Event is full'.
C23_GenericNeedsChange ==
    \A r \in Reqs :
        /\ AdmissionRejected(r) =>
             /\ req[r].currentEvent # req[r].atWrite
             /\ \E q \in On(req[r].eventId) \ {r} : req[q].kind = "leave"
        /\ (Done(r) /\ req[r].kind = "join" /\ ~Admitted(r)
              /\ req[r].currentEvent = req[r].atWrite) =>
             EventNotFound(r) \/ AlreadyMember(r) \/ CapacityExceeded(r)

\* a join of a full event was answered 'RSVP Failed' after a leave, and a
\* join of a full event that nobody left was answered 'Event is full'
C23_Witness ==
    \E r, q \in Reqs :
        /\ AdmissionRejected(r)
        /\ CapacityExceeded(q) /\ req[q].currentEvent = req[q].atWrite

\* C24: per-event isolation and capacity frame.  No step of a join or a
\* leave creates or removes a record or changes the capacity or the organizer
\* of any event; the step of a request on event e leaves the record of every
\* other event as it was; a step that rejects a join changes no record.
C24_EventIsolation ==
    [][/\ DOMAIN store' = DOMAIN store
       /\ \A x \in DOMAIN store :
            /\ store'[x].capacity = store[x].capacity
            /\ store'[x].organizer = store[x].organizer
       /\ \A r \in Reqs :
            /\ (Starts(r, "join") \/ Starts(r, "leave")) =>
                 \A x \in DOMAIN store \ {req'[r].eventId} : store'[x] = store[x]
            /\ (Starts(r, "join") /\ req'[r].pc = "findById") => store' = store
      ]_vars

\* two events with different records exist; a join was admitted to the
\* first, a leave took somebody out of the second, and a join was rejected
C24_Witness ==
    \E a, b, c \in Reqs :
        /\ DOMAIN store = Events
        /\ store0["e1"] # store0["e2"]
        /\ Admitted(a) /\ req[a].eventId = "e1"
        /\ Left(b) /\ req[b].eventId = "e2"
        /\ \E d \in req[b].atWrite : req[b].userId \in Range(d.attendees)
        /\ IsJoin(c) /\ ~Admitted(c)

\* C25: the returned lists are the post-write state.  The list an admitted
\* join by U returns is the list stored for the event right after its write:
\* it holds U exactly once and is no longer than the capacity.  The list a
\* successful leave by U returns is the list stored right after its pull and
\* does not hold U.
C25_ReturnsPostWrite ==
    [][\A r \in Reqs :
        LET u == req'[r].userId
            e == req'[r].eventId
            a == req'[r].res.attendees
        IN
        /\ (Starts(r, "join") /\ req'[r].res.status = 200) =>
             /\ e \in DOMAIN store'
             /\ a = store'[e].attendees
             /\ Cardinality({i \in 1..Len(a) : a[i] = u}) = 1
             /\ Len(a) <= store'[e].capacity
        /\ (Starts(r, "leave") /\ req'[r].res.status = 200) =>
             /\ e \in DOMAIN store'
             /\ a = store'[e].attendees
             /\ u \notin Range(a)
      ]_vars

\* a join was admitted as the second attendee, and a leave that took its
\* caller out returned a list that still holds somebody
C25_Witness ==
    \E r, q \in Reqs :
        /\ Admitted(r) /\ Len(req[r].res.attendees) = 2
        /\ Left(q) /\ req[q].res.attendees # <<>>
        /\ \E d \in req[q].atWrite : req[q].userId \in Range(d.attendees)

\* C28: no spurious rejection.  A join by U whose conditional write found the
\* event present, U not among its attendees and fewer attendees than its
\* capacity is admitted by that write, and a join whose write found anything
\* else is not admitted: it found no event, or U among the attendees, or as
\* many attendees as the capacity.
C28_NoSpuriousRejection ==
    \A r \in Reqs :
        IsJoin(r) =>
            LET u == req[r].userId
                found == req[r].atWrite
                open == \E d \in found :
                            /\ u \notin Range(d.attendees)
                            /\ Len(d.attendees) < d.capacity
            IN  /\ open => Admitted(r)
                /\ ~open =>
                     /\ ~Admitted(r)
                     /\ \/ found = {}
                        \/ \E d \in found : u \in Range(d.attendees)
                        \/ \E d \in found : Len(d.attendees) >= d.capacity

\* a join took the last place of an event, and a join was rejected
C28_Witness ==
    \E r, q \in Reqs :
        /\ Admitted(r)
        /\ \E d \in req[r].atWrite : Len(d.attendees) + 1 = d.capacity
        /\ IsJoin(q) /\ ~Admitted(q) /\ req[q].atWrite # {}

\* C29: the reported reason held at the diagnostic read.  In the step of a
\* join's diagnostic read: when it answers 'Event is full' the event is
\* stored, the caller is not among its attendees and it has at least as many
\* attendees as its capacity; when it answers 'Already RSVPed' the caller is
\* among the attendees; when it answers 'Event not found' no record is stored.
C29_ReasonHeldAtRead ==
    [][\A r \in Reqs :
        (req[r].kind = "join" /\ Ends(r, "findById")) =>
            LET u == req[r].userId
                e == req[r].eventId
                res == req'[r].res
            IN  /\ res = Message(400, "Event is full") =>
                     /\ e \in DOMAIN store
                     /\ u \notin Range(store[e].attendees)
                     /\ Len(store[e].attendees) >= store[e].capacity
                /\ res = Message(400, "Already RSVPed") =>
                     /\ e \in DOMAIN store
                     /\ u \in Range(store[e].attendees)
                /\ res = Message(404, "Event not found") =>
                     e \notin DOMAIN store
      ]_vars

\* a join rejected because its caller was an attendee is answered 'Event is
\* full': the caller left and somebody else took the place before the read
C29_Witness ==
    \E r \in Reqs :
        /\ CapacityExceeded(r)
        /\ \E d \in req[r].atWrite : req[r].userId \in Range(d.attendees)

\* C30: an unknown action is rejected without effect.  An rsvp whose action
\* is neither "join" nor "leave", or is missing, is answered 400 'Invalid
\* action' at once, has issued no store operation, and leaves the whole
\* collection as it was.
C30_InvalidActionNoEffect ==
    [][\A r \in Reqs :
        /\ \A u \in Users, e \in Events, a \in Actions \ {{"join"}, {"leave"}} :
             Rsvp(r, u, e, a) =>
                 /\ store' = store
                 /\ req'[r].pc = "done"
                 /\ req'[r].res = Message(400, "Invalid action")
                 /\ req'[r].writes = 0 /\ req'[r].reads = 0
        /\ Starts(r, "invalid") =>
             /\ store' = store
             /\ req'[r].res = Message(400, "Invalid action")
      ]_vars

\* an attendee of an event sent an unknown action and is still an attendee,
\* next to an admitted join
C30_Witness ==
    \E r, q \in Reqs :
        /\ Done(r) /\ req[r].kind = "invalid"
        /\ req[r].eventId \in DOMAIN store
        /\ req[r].userId \in Range(store[req[r].eventId].attendees)
        /\ Admitted(q)

\* request r is a create that was answered with a failure
CreateRefused(r) ==
    Done(r) /\ req[r].kind = "create" /\ req[r].res.status # 201

\* C26: event creation.  A create without an image file is answered 400
\* 'Image is required' in a step that changes no record; a create whose
\* upload fails or whose save fails is answered 500 in a step that changes no
\* record, and no step of a create that ends with a failure adds a record;
\* every record that appears in the collection is the one a create's save
\* wrote, answered 201: its attendees are empty, its capacity is the one the
\* request gave and its organizer is the requesting user.
C26_EventCreation ==
    [][/\ \A r \in Reqs :
            /\ \A u \in Users, c \in CapacityFields, up \in BOOLEAN :
                 Create(r, u, c, FALSE, up) =>
                     /\ store' = store
                     /\ req'[r].pc = "done"
                     /\ req'[r].res = Message(400, "Image is required")
            /\ \A u \in Users, c \in CapacityFields :
                 Create(r, u, c, TRUE, FALSE) =>
                     /\ store' = store
                     /\ req'[r].pc = "done"
                     /\ req'[r].res.status = 500
            /\ CreateSave(r, FALSE) =>
                 /\ store' = store
                 /\ req'[r].res.status = 500
            /\ (~CreateRefused(r) /\ CreateRefused(r)') => store' = store
       /\ \A e \in DOMAIN store' \ DOMAIN store :
            \E r \in Reqs :
                /\ req[r].kind = "create" /\ Ends(r, "save")
                /\ req[r].eventId = e
                /\ req'[r].res.status = 201
                /\ req'[r].res.attendees = <<>>
                /\ store'[e].attendees = <<>>
                /\ store'[e].organizer = req[r].userId
                /\ req[r].body.capacity = {store'[e].capacity}
      ]_vars

\* one create made a record, one was refused for its missing image and one
\* was answered 500
C26_Witness ==
    \E a, b, c \in Reqs :
        /\ Done(a) /\ req[a].kind = "create" /\ req[a].res.status = 201
        /\ req[a].eventId \in DOMAIN store
        /\ CreateRefused(b) /\ req[b].res.status = 400
        /\ CreateRefused(c) /\ req[c].res.status = 500

\* what ProtectedRoute renders, on a page it wraps
View == ProtectedRoute(browser.user, browser.loading)

\* the session is logged out: the last call was logout, or none was made
LoggedOut == browser.session.op \in {"none", "logout"}

\* C21: protected pages require a user.  While AuthProvider is mounted,
\* ProtectedRoute shows its children exactly when loading is false and user is
\* not null, the placeholder while loading, and the redirect to /login when
\* loading is false and user is null; a logged-out session is never shown the
\* children, whatever mounts, logins and logouts came before.
C21_ProtectedPages ==
    browser.mounted =>
        /\ View = "children" <=> (~browser.loading /\ browser.user # {})
        /\ browser.loading => View = "Loading..."
        /\ (~browser.loading /\ browser.user = {}) => View = "Navigate /login"
        /\ LoggedOut => View # "children"

\* after a logout a protected page was opened, the effect has run, the
\* placeholder is gone and the page redirects
C21_Witness ==
    /\ browser.mounted /\ ~browser.effect /\ ~browser.loading
    /\ browser.session.op = "logout"
    /\ browser.savedUser = {<<>>}
    /\ browser.path \in Protected
    /\ View = "Navigate /login"

\* the last call was a login with a token that is not empty
LoggedIn == browser.session.op = "login" /\ browser.session.token # ""

\* C27: the session persistence round trip.  A login with a token that is
\* not empty makes user its userData at once, and whenever AuthProvider is
\* mounted and its effect has run after such a login, user is that userData:
\* a remount restores it.  A logout makes user null and the stored auth-token
\* the empty string, and after it user stays null and the token empty through
\* every remount.  Once mounted, loading becomes false, unless the page is
\* closed first.
C27_SessionRoundTrip ==
    /\ [](LoggedIn =>
            /\ browser.authToken = {browser.session.token}
            /\ (browser.mounted /\ ~browser.effect) =>
                 /\ browser.user = browser.session.userData
                 /\ ~browser.loading)
    /\ [](browser.session.op = "logout" =>
            /\ browser.user = {}
            /\ browser.authToken = {""})
    /\ [][/\ \A token \in Tokens \ {""}, userData \in UserDatas :
              Login(token, userData) => browser'.user = {userData}
          /\ Logout => (browser'.user = {} /\ browser'.authToken = {""})
         ]_vars
    /\ ((browser.mounted /\ browser.loading)
          ~> (~browser.loading \/ ~browser.mounted))

\* after a login the page was reloaded and the effect has restored the user
C27_Witness ==
    /\ LoggedIn
    /\ browser.mounted /\ ~browser.effect /\ ~browser.loading
    /\ browser.user = browser.session.userData
    /\ browser.user # {}
    /\ browser.path \in Protected
====
